---- MODULE Spec2Model ----
(***************************************************************************)
(* Model of src/AI/core/config.ts: an ES module whose default export is    *)
(* one object literal { model, systemPrompt, maxTokens }.                  *)
(*                                                                         *)
(* A "load" is one host process evaluating the module: the imports are     *)
(* linked (lines 1-2), the property initialiser ollama('qwen2.5-coder:7b') *)
(* is evaluated (line 6), the object literal is allocated and becomes the  *)
(* default export (lines 4-11).  The host then receives the exported       *)
(* object by reference and may do with it what JavaScript lets it do with  *)
(* a plain, unfrozen object.                                               *)
(*                                                                         *)
(* Strings whose exact characters matter (systemPrompt) are sequences of   *)
(* Unicode code points.                                                    *)
(***************************************************************************)
EXTENDS Integers, Sequences, FiniteSets

\* Number of separate process loads in the model.
NumLoads == 2

Loads == 1..NumLoads

\* config.ts:6  the model-name argument of the factory call.
ModelName == "qwen2.5-coder:7b"

\* config.ts:9  the string literal, code point by code point.
SystemPrompt_Homoglyph ==
  << 1058, 1099, 32, 45, 32, 111, 1087, 1099, 1090, 1085, 1099, 1081,
     32, 1087, 1088, 1086, 1075, 1088, 1072, 1084, 1084, 1080, 1089, 1090,
     44, 32, 1087, 1086, 1084, 1086, 1075, 1072, 1102, 1097, 1080, 1081,
     32, 1087, 1080, 1089, 1072, 1090, 1100, 32, 1095, 1080, 1089, 1090,
     1099, 1081, 32, 1080, 32, 1101, 1092, 1092, 1077, 1082, 1090, 1080,
     1074, 1085, 1099, 1081, 32, 1082, 1086, 1076, 46 >>

SystemPrompt_Empty == << >>

SystemPrompt ==
  << 1058, 1099, 32, 45, 32, 1086, 1087, 1099, 1090, 1085, 1099, 1081,
     32, 1087, 1088, 1086, 1075, 1088, 1072, 1084, 1084, 1080, 1089, 1090,
     44, 32, 1087, 1086, 1084, 1086, 1075, 1072, 1102, 1097, 1080, 1081,
     32, 1087, 1080, 1089, 1072, 1090, 1100, 32, 1095, 1080, 1089, 1090,
     1099, 1081, 32, 1080, 32, 1101, 1092, 1092, 1077, 1082, 1090, 1080,
     1074, 1085, 1099, 1081, 32, 1082, 1086, 1076, 46 >>

\* config.ts:10
MaxTokens == 4096

\* config.ts:1,6  the imported provider factory.  The library is not part of
\* the repository; its result is the opaque binding "provider + model name".
ollama(modelId) == [provider |-> "ollama", modelId |-> modelId]

\* config.ts:4-11  the object literal, given the value of the model initialiser.
Construct_NoMaxTokens(handle) ==
  [model |-> handle, systemPrompt |-> SystemPrompt]

Construct_Unlimited(handle) ==
  [model |-> handle, systemPrompt |-> SystemPrompt, maxTokens |-> -1]

Construct_PerModelLimit(handle) ==
  [model        |-> handle,
   systemPrompt |-> SystemPrompt,
   maxTokens    |-> IF handle.modelId = ModelName THEN MaxTokens ELSE 2048]

Construct(handle) ==
  [model        |-> handle,
   systemPrompt |-> SystemPrompt,
   maxTokens    |-> MaxTokens]

\* config.ts:2,11  "satisfies Config": the host's schema, with the required
\* fields of the configuration shape.
SatisfiesConfig(rec) ==
  /\ {"model", "systemPrompt", "maxTokens"} \subseteq DOMAIN rec
  /\ {"provider", "modelId"} \subseteq DOMAIN rec.model
  /\ rec.systemPrompt \in Seq(Nat)
  /\ rec.maxTokens \in Int

NoHandle == [provider |-> "none", modelId |-> ""]

Fields == {"model", "systemPrompt", "maxTokens"}

\* Model identifiers a build of the file may name (for the field-independence
\* check): the real one, another model, an unknown one, the empty string.
ModelIds == {ModelName, "llama3", "no-such-model", ""}

\* What a host may store into a field of the object it was handed.
HostValues(f) ==
  CASE f = "model"        -> {ollama("llama3")}
    [] f = "systemPrompt" -> {<< >>, <<72, 105>>}
    [] f = "maxTokens"    -> {0, 8192}

VARIABLES
  modelName,  \* modelName[p]: the string literal at line 6 in the file p loads
  pc,         \* pc[p]: how far the module's evaluation has got in process p
  modelTmp,   \* modelTmp[p]: value of the initialiser of `model`
  calls,      \* calls[p]: the calls the module made to anything outside itself
  heap,       \* heap[p]: the objects the module allocated, in order
  exports,    \* exports[p]: index in heap[p] of the default export, 0 = none
  hostState,  \* hostState[p]: "none", "accepted" or "rejected" by the loader
  hostRef     \* hostRef[p]: the host's reference to the record, 0 = none

vars == <<modelName, pc, modelTmp, calls, heap, exports, hostState, hostRef>>

InitRest ==
  /\ pc        = [p \in Loads |-> "unloaded"]
  /\ modelTmp  = [p \in Loads |-> NoHandle]
  /\ calls     = [p \in Loads |-> << >>]
  /\ heap      = [p \in Loads |-> << >>]
  /\ exports   = [p \in Loads |-> 0]
  /\ hostState = [p \in Loads |-> "none"]
  /\ hostRef   = [p \in Loads |-> 0]

\* The file as it is: every load evaluates line 6 with 'qwen2.5-coder:7b'.
Init ==
  /\ modelName = [p \in Loads |-> ModelName]
  /\ InitRest

\* The file with the identifier at line 6 changed, independently per load.
InitAny ==
  /\ modelName \in [Loads -> ModelIds]
  /\ InitRest

----------------------------------------------------------------------------
\* The module's own steps.

\* Lines 1-2: the process starts evaluating the module; an ES module is
\* evaluated once, on its first import.
Load_NoCache(p) ==
  /\ pc[p] \in {"unloaded", "loaded"}
  /\ pc' = [pc EXCEPT ![p] = "linked"]
  /\ UNCHANGED <<modelName, modelTmp, calls, heap, exports, hostState, hostRef>>

Load(p) ==
  /\ pc[p] = "unloaded"
  /\ pc' = [pc EXCEPT ![p] = "linked"]
  /\ UNCHANGED <<modelName, modelTmp, calls, heap, exports, hostState, hostRef>>

\* Line 6: model: ollama('qwen2.5-coder:7b').
BindModel_Twice(p) ==
  /\ pc[p] = "linked"
  /\ calls' = [calls EXCEPT ![p] =
                 @ \o << [fn |-> "ollama", arg |-> modelName[p]],
                         [fn |-> "ollama", arg |-> modelName[p]] >>]
  /\ modelTmp' = [modelTmp EXCEPT ![p] = ollama(modelName[p])]
  /\ pc' = [pc EXCEPT ![p] = "bound"]
  /\ UNCHANGED <<modelName, heap, exports, hostState, hostRef>>

BindModel(p) ==
  /\ pc[p] = "linked"
  /\ calls' = [calls EXCEPT ![p] =
                 Append(@, [fn |-> "ollama", arg |-> modelName[p]])]
  /\ modelTmp' = [modelTmp EXCEPT ![p] = ollama(modelName[p])]
  /\ pc' = [pc EXCEPT ![p] = "bound"]
  /\ UNCHANGED <<modelName, heap, exports, hostState, hostRef>>

\* Lines 4-11: export default { ... } satisfies Config.
ExportDefault_Counter(p) ==
  /\ pc[p] = "bound"
  /\ heap' = [heap EXCEPT ![p] = Append(@,
                [Construct(modelTmp[p]) EXCEPT
                   !.maxTokens = @ + Cardinality({q \in Loads : pc[q] = "loaded"})])]
  /\ exports' = [exports EXCEPT ![p] = Len(heap'[p])]
  /\ pc' = [pc EXCEPT ![p] = "loaded"]
  /\ UNCHANGED <<modelName, modelTmp, calls, hostState, hostRef>>

ExportDefault_Again(p) ==
  /\ pc[p] \in {"bound", "loaded"}
  /\ heap' = [heap EXCEPT ![p] = Append(@, Construct(modelTmp[p]))]
  /\ exports' = [exports EXCEPT ![p] = Len(heap'[p])]
  /\ pc' = [pc EXCEPT ![p] = "loaded"]
  /\ UNCHANGED <<modelName, modelTmp, calls, hostState, hostRef>>

ExportDefault(p) ==
  /\ pc[p] = "bound"
  /\ heap' = [heap EXCEPT ![p] = Append(@, Construct(modelTmp[p]))]
  /\ exports' = [exports EXCEPT ![p] = Len(heap'[p])]
  /\ pc' = [pc EXCEPT ![p] = "loaded"]
  /\ UNCHANGED <<modelName, modelTmp, calls, hostState, hostRef>>

ModuleStep(p) == Load(p) \/ BindModel(p) \/ ExportDefault(p)

----------------------------------------------------------------------------
\* The host's steps on the default export.

\* The host's loader takes the default export and checks it against Config.
HostReceive(p) ==
  /\ pc[p] = "loaded"
  /\ hostState[p] = "none"
  /\ IF SatisfiesConfig(heap[p][exports[p]])
       THEN /\ hostState' = [hostState EXCEPT ![p] = "accepted"]
            /\ hostRef' = [hostRef EXCEPT ![p] = exports[p]]
       ELSE /\ hostState' = [hostState EXCEPT ![p] = "rejected"]
            /\ UNCHANGED hostRef
  /\ UNCHANGED <<modelName, pc, modelTmp, calls, heap, exports>>

\* The export is a plain object literal (no Object.freeze, no accessor): an
\* assignment through the host's reference stores into it.
HostAssign(p, f, v) ==
  /\ hostState[p] = "accepted"
  /\ heap' = [heap EXCEPT ![p][hostRef[p]][f] = v]
  /\ UNCHANGED <<modelName, pc, modelTmp, calls, exports, hostState, hostRef>>

Next ==
  \E p \in Loads :
    \/ Load(p)
    \/ BindModel(p)
    \/ ExportDefault(p)
    \/ HostReceive(p)
    \/ \E f \in Fields : \E v \in HostValues(f) : HostAssign(p, f, v)

Spec == Init /\ [][Next]_vars

SpecAny == InitAny /\ [][Next]_vars

----------------------------------------------------------------------------
\* The record a load has produced.

\* The default export of process p.
Exported(p) == heap[p][exports[p]]

\* The load of process p has yielded its record and nothing has used it yet.
Yielded(p) == pc[p] = "loaded" /\ hostState[p] = "none"

\* The prompt as the specification states it (section 8, scenario 5).
ExpectedPrompt ==
  << 1058, 1099, 32, 45, 32, 1086, 1087, 1099, 1090, 1085, 1099, 1081, 32,
     1087, 1088, 1086, 1075, 1088, 1072, 1084, 1084, 1080, 1089, 1090, 44, 32,
     1087, 1086, 1084, 1086, 1075, 1072, 1102, 1097, 1080, 1081, 32,
     1087, 1080, 1089, 1072, 1090, 1100, 32,
     1095, 1080, 1089, 1090, 1099, 1081, 32, 1080, 32,
     1101, 1092, 1092, 1077, 1082, 1090, 1080, 1074, 1085, 1099, 1081, 32,
     1082, 1086, 1076, 46 >>

\* C1: every load yields a record whose maxTokens is 4096 and whose
\* systemPrompt is, character for character, the prompt of the specification.
C1_ExactValues ==
  \A p \in Loads :
    Yielded(p) => /\ Exported(p).maxTokens = 4096
                  /\ Exported(p).systemPrompt = ExpectedPrompt

C1_Witness ==
  \E p \in Loads : Yielded(p) /\ Len(Exported(p).systemPrompt) = Len(ExpectedPrompt)

C3_LoadsEqual ==
  \A p, q \in Loads :
    (Yielded(p) /\ Yielded(q)) => Exported(p) = Exported(q)

C3_Witness ==
  \E p, q \in Loads : p # q /\ Yielded(p) /\ Yielded(q)

\* C4: with any two model identifiers at line 6, the records have the same
\* systemPrompt and the same maxTokens; they differ in the model field only.
C4_FieldIndependence ==
  \A p, q \in Loads :
    (Yielded(p) /\ Yielded(q)) =>
      /\ Exported(p).systemPrompt = Exported(q).systemPrompt
      /\ Exported(p).maxTokens = Exported(q).maxTokens
      /\ Exported(p) = [Exported(q) EXCEPT !.model = Exported(p).model]

C4_Witness ==
  \E p, q \in Loads :
    /\ Yielded(p) /\ Yielded(q)
    /\ modelName[p] # modelName[q]
    /\ Exported(p).model # Exported(q).model

C7_MaxTokensPositive ==
  \A p, q \in Loads :
    Yielded(p) =>
      /\ Exported(p).maxTokens \in Nat
      /\ Exported(p).maxTokens > 0
      /\ Yielded(q) => Exported(q).maxTokens = Exported(p).maxTokens

C7_Witness ==
  \E p, q \in Loads :
    p # q /\ Yielded(p) /\ Yielded(q) /\ Exported(p).maxTokens > 0

\* C8: the yielded systemPrompt is a non-empty string.
C8_PromptNonEmpty ==
  \A p \in Loads : Yielded(p) => Len(Exported(p).systemPrompt) > 0

C8_Witness ==
  \E p \in Loads : Yielded(p) /\ Exported(p).systemPrompt # << >>

\* C9: a load calls the provider factory exactly once, with the non-empty
\* model name 'qwen2.5-coder:7b'; the module makes no other outside call, and
\* the model field is the result of that call.
C9_OneFactoryCall ==
  \A p \in Loads :
    /\ pc[p] \in {"unloaded", "linked"} => calls[p] = << >>
    /\ pc[p] \in {"bound", "loaded"} =>
         /\ Len(calls[p]) = 1
         /\ calls[p][1].fn = "ollama"
         /\ calls[p][1].arg # ""
         /\ calls[p][1].arg = "qwen2.5-coder:7b"
    /\ Yielded(p) => Exported(p).model = ollama(calls[p][1].arg)

C9_Witness ==
  \E p \in Loads : hostState[p] = "accepted" /\ Len(calls[p]) = 1

\* C10: constructed is the descriptor's only state: once a load has completed,
\* no step of the module is possible any more.
C10_NoTransitions ==
  \A p \in Loads : pc[p] = "loaded" => ~ENABLED ModuleStep(p)

C10_Witness ==
  \A p \in Loads : pc[p] = "loaded" /\ hostState[p] = "accepted"

====
